---- MODULE Spec2Model ----
(***************************************************************************)
(* Model of fisheye/core.py: the FishEye object (grid geometry, verbose    *)
(* flag, intrinsic matrix K, distortion vector D) and its operations       *)
(* calibrate, undistort and projectPoints.                                 *)
(*                                                                         *)
(* numpy arrays are records [shape, data] with data in row-major order.    *)
(* The OpenCV routines are external: each is modelled by what fisheye      *)
(* passes to it and takes from it.  What the calibration optimizer does    *)
(* (raise, or write a fit into its K and D buffers) is an input of the     *)
(* calibrate action, drawn from Oracles.                                   *)
(***************************************************************************)
EXTENDS Integers, Sequences, FiniteSets, TLC

\* ------------------------------------------------------------------ bounds
MaxN == 3        \* grid sizes nx, ny range over 1..MaxN
MaxImgs == 2     \* img_paths has at most MaxImgs entries
NFits == 2       \* distinct fits the optimizer may write
MaxPts == 2      \* object_points has 1..MaxPts points

\* ------------------------------------------------------------ numpy arrays
RECURSIVE Prod(_)
Prod(s) == IF s = <<>> THEN 1 ELSE Head(s) * Prod(Tail(s))

zeros(shape) == [shape |-> shape, data |-> [i \in 1..Prod(shape) |-> 0]]

eye3 == [shape |-> <<3, 3>>, data |-> <<1, 0, 0, 0, 1, 0, 0, 0, 1>>]

ndim(a) == Len(a.shape)

\* a.copy(): a new buffer with the same contents
copy(a) == [shape |-> a.shape, data |-> a.data]

\* np.expand_dims(a, 0)
expand_dims0(a) == [shape |-> <<1>> \o a.shape, data |-> a.data]

\* np.squeeze(a): every axis of length 1 is removed, the data is kept
squeeze(a) == [shape |-> SelectSeq(a.shape, LAMBDA d : d # 1), data |-> a.data]

\* a.reshape(newshape), one entry of newshape may be -1
reshape(a, newshape) ==
    LET known == Prod([i \in 1..Len(newshape) |->
                          IF newshape[i] = -1 THEN 1 ELSE newshape[i]])
    IN  [shape |-> [i \in 1..Len(newshape) |->
                       IF newshape[i] = -1 THEN Len(a.data) \div known
                       ELSE newshape[i]],
         data  |-> a.data]

\* a[::-1] of a shape tuple
reversed(s) == [i \in 1..Len(s) |-> s[Len(s) + 1 - i]]

\* np.mgrid[0:n0, 0:n1]: shape (2, n0, n1), m[0,i,j] = i, m[1,i,j] = j
mgrid(n0, n1) ==
    [shape |-> <<2, n0, n1>>,
     data  |-> [q \in 1..(2 * n0 * n1) |->
                   LET c == (q - 1) \div (n0 * n1)
                       i == ((q - 1) % (n0 * n1)) \div n1
                       j == (q - 1) % n1
                   IN  IF c = 0 THEN i ELSE j]]

\* a.T of a 3-d array: axes reversed, t[x,y,z] = a[z,y,x]
TNoTranspose(a) == a

T(a) ==
    LET s0 == a.shape[1]
        s1 == a.shape[2]
        s2 == a.shape[3]
    IN  [shape |-> <<s2, s1, s0>>,
         data  |-> [q \in 1..(s0 * s1 * s2) |->
                       LET x == (q - 1) \div (s1 * s0)
                           y == ((q - 1) % (s1 * s0)) \div s0
                           z == (q - 1) % s0
                       IN  a.data[z * s1 * s2 + y * s2 + x + 1]]]

\* chessboard_model = zeros((1, nx*ny, 3)); chessboard_model[0, :, :2] = grid
chessboard(nx, ny) ==
    LET grid == reshape(T(mgrid(nx, ny)), <<-1, 2>>)
        z    == zeros(<<1, nx * ny, 3>>)
    IN  [shape |-> z.shape,
         data  |-> [q \in 1..(nx * ny * 3) |->
                       LET k == (q - 1) \div 3
                           c == (q - 1) % 3
                       IN  IF c < 2 THEN grid.data[k * 2 + c + 1]
                           ELSE z.data[q]]]

\* ------------------------------------------------------- files and images
None == [isNone |-> TRUE, shape |-> <<>>, content |-> "none"]

Unbound == [isNone |-> FALSE, shape |-> <<>>, content |-> "unbound"]

\* a path is <<directory, file name>>
Paths == {<<"imgs", "bad.png">>, <<"imgs", "black.png">>,
          <<"imgs", "cbA.png">>, <<"imgs", "cbB.png">>}

\* cv2.imread: None for a file that cannot be read, else a BGR image
imread(fname) ==
    CASE fname = <<"imgs", "black.png">> ->
             [isNone |-> FALSE, shape |-> <<2, 3, 3>>, content |-> "black"]
      [] fname = <<"imgs", "cbA.png">> ->
             [isNone |-> FALSE, shape |-> <<2, 3, 3>>, content |-> "cbA"]
      [] fname = <<"imgs", "cbB.png">> ->
             [isNone |-> FALSE, shape |-> <<3, 2, 3>>, content |-> "cbB"]
      [] OTHER -> None

\* cv2.cvtColor(img, COLOR_BGR2GRAY); raises on None (see LoopBody)
cvtColor(img) ==
    [isNone |-> FALSE, shape |-> SubSeq(img.shape, 1, 2), content |-> img.content]

\* cv2.findChessboardCorners: (ret, corners of shape (nx*ny, 1, 2))
findChessboardCorners(gray, nx, ny) ==
    IF gray.content \in {"cbA", "cbB"}
    THEN [ret |-> TRUE,
          corners |-> [shape |-> <<nx * ny, 1, 2>>,
                       data  |-> [q \in 1..(nx * ny * 2) |->
                                     <<gray.content, q, "coarse">>]]]
    ELSE [ret |-> FALSE, corners |-> [shape |-> <<>>, data |-> <<>>]]

\* cv2.cornerSubPix: same count and order, each corner refined
cornerSubPix(gray, corners) ==
    [shape |-> corners.shape,
     data  |-> [q \in 1..Len(corners.data) |->
                   <<corners.data[q][1], corners.data[q][2], "subpix">>]]

\* os.path.split(fname)[1]
os_path_split_1(fname) == fname[2]

\* ---------------------------------------------------------------- FishEye
\* __init__: the state of a FishEye object after construction
FishEye(nx, ny, verbose) ==
    [nx |-> nx, ny |-> ny, verbose |-> verbose,
     K |-> zeros(<<3, 3>>), D |-> zeros(<<4, 1>>)]

\* what the optimizer does when it is invoked: raise, or write fit number fit
Oracles ==
    {[raises |-> TRUE, fit |-> 0]} \cup
    {[raises |-> FALSE, fit |-> f] : f \in 1..NFits}

\* the optimizer's outcome is open only when the loop hands it corner sets:
\* it is not reached after an exception and it rejects empty lists
OraclesFor(st) ==
    IF st.raised = "" /\ st.chess_2Dpts_list # <<>>
    THEN Oracles
    ELSE {[raises |-> TRUE, fit |-> 0]}

fitK(f) == [shape |-> <<3, 3>>, data |-> <<f, 0, f, 0, f, f, 0, 0, 1>>]

fitD(f) == [shape |-> <<4, 1>>, data |-> <<f, f, f, f>>]

\* state of the calibrate loop before the first image
LoopStart ==
    [chess_2Dpts_list |-> <<>>, gray |-> Unbound, raised |-> "",
     printed |-> <<>>, shown |-> <<>>]

\* one pass of "for fname in img_paths", a detection failure appending too
LoopBodyFailAppends(st, fname, self, show_imgs) ==
    LET p1   == IF self.verbose
                THEN Append(st.printed, <<"Processing img", os_path_split_1(fname)>>)
                ELSE st.printed
        img  == imread(fname)
        gray == cvtColor(img)
        det  == findChessboardCorners(gray, self.nx, self.ny)
        sub  == cornerSubPix(gray, det.corners)
    IN  IF img.isNone
        THEN [st EXCEPT !.printed = p1, !.raised = "cv2.error"]
        ELSE [st EXCEPT
                !.gray = gray,
                !.chess_2Dpts_list = Append(@, reshape(sub, <<1, -1, 2>>)),
                !.printed = IF self.verbose THEN Append(p1, <<"OK">>) ELSE p1,
                !.shown = IF show_imgs
                          THEN Append(@, <<"success img", img.content>>) ELSE @]

\* one pass of "for fname in img_paths", the unrefined corners kept when shown
LoopBodyShownCoarse(st, fname, self, show_imgs) ==
    LET p1   == IF self.verbose
                THEN Append(st.printed, <<"Processing img", os_path_split_1(fname)>>)
                ELSE st.printed
        img  == imread(fname)
        gray == cvtColor(img)
        det  == findChessboardCorners(gray, self.nx, self.ny)
        sub  == IF show_imgs THEN det.corners ELSE cornerSubPix(gray, det.corners)
    IN  IF img.isNone
        THEN [st EXCEPT !.printed = p1, !.raised = "cv2.error"]
        ELSE IF det.ret
        THEN [st EXCEPT
                !.gray = gray,
                !.chess_2Dpts_list = Append(@, reshape(sub, <<1, -1, 2>>)),
                !.printed = IF self.verbose THEN Append(p1, <<"OK">>) ELSE p1,
                !.shown = IF show_imgs
                          THEN Append(@, <<"success img", img.content>>) ELSE @]
        ELSE [st EXCEPT
                !.gray = gray,
                !.printed = IF self.verbose THEN Append(p1, <<"FAIL!">>) ELSE p1,
                !.shown = IF show_imgs
                          THEN Append(@, <<"fail img", img.content>>) ELSE @]

\* one pass of "for fname in img_paths": load, convert, detect, refine, append
LoopBody(st, fname, self, show_imgs) ==
    LET p1   == IF self.verbose
                THEN Append(st.printed, <<"Processing img", os_path_split_1(fname)>>)
                ELSE st.printed
        img  == imread(fname)
        gray == cvtColor(img)
        det  == findChessboardCorners(gray, self.nx, self.ny)
        sub  == cornerSubPix(gray, det.corners)
    IN  IF img.isNone
        THEN \* cvtColor(None) raises; the loop and the call end here
             [st EXCEPT !.printed = p1, !.raised = "cv2.error"]
        ELSE IF det.ret
        THEN [st EXCEPT
                !.gray = gray,
                !.chess_2Dpts_list = Append(@, reshape(sub, <<1, -1, 2>>)),
                !.printed = IF self.verbose THEN Append(p1, <<"OK">>) ELSE p1,
                !.shown = IF show_imgs
                          THEN Append(@, <<"success img", img.content>>) ELSE @]
        ELSE [st EXCEPT
                !.gray = gray,
                !.printed = IF self.verbose THEN Append(p1, <<"FAIL!">>) ELSE p1,
                !.shown = IF show_imgs
                          THEN Append(@, <<"fail img", img.content>>) ELSE @]

\* the for loop: passes in list order, ended by the first exception
RECURSIVE Loop(_, _, _, _)
Loop(st, img_paths, self, show_imgs) ==
    IF img_paths = <<>> \/ st.raised # ""
    THEN st
    ELSE Loop(LoopBody(st, Head(img_paths), self, show_imgs),
              Tail(img_paths), self, show_imgs)

\* rvecs / tvecs: one zero (1, 1, 3) array per accumulated corner set
PoseVecs(N_OK) == [i \in 1..N_OK |-> zeros(<<1, 1, 3>>)]

\* "if update_model": the buffers handed to the optimizer, always the model's
SelectBuffersNoCopy(self, update_model) ==
    [stored |-> TRUE, K |-> self.K, D |-> self.D]

\* "if update_model": the buffers handed to the optimizer; stored says that
\* they are the model's own arrays and not copies
SelectBuffers(self, update_model) ==
    IF update_model
    THEN [stored |-> TRUE, K |-> self.K, D |-> self.D]
    ELSE [stored |-> FALSE, K |-> copy(self.K), D |-> copy(self.D)]

\* the argument list of cv2.fisheye.calibrate, the model passed once
OptimizerArgsSingle(chessboard_model, chess_2Dpts_list, gray, buf, rvecs, tvecs) ==
    [objectPoints |-> <<chessboard_model>>,
     imagePoints  |-> chess_2Dpts_list,
     image_size   |-> reversed(gray.shape),
     K            |-> buf.K,
     D            |-> buf.D,
     rvecs        |-> rvecs,
     tvecs        |-> tvecs,
     flags        |-> {"CALIB_RECOMPUTE_EXTRINSIC", "CALIB_CHECK_COND", "CALIB_FIX_SKEW"},
     criteria     |-> <<{"EPS", "MAX_ITER"}, 30, "1e-6">>]

\* the argument list of cv2.fisheye.calibrate
OptimizerArgs(chessboard_model, chess_2Dpts_list, gray, buf, rvecs, tvecs) ==
    [objectPoints |-> [i \in 1..Len(chess_2Dpts_list) |-> chessboard_model],
     imagePoints  |-> chess_2Dpts_list,
     image_size   |-> reversed(gray.shape),
     K            |-> buf.K,
     D            |-> buf.D,
     rvecs        |-> rvecs,
     tvecs        |-> tvecs,
     flags        |-> {"CALIB_RECOMPUTE_EXTRINSIC", "CALIB_CHECK_COND", "CALIB_FIX_SKEW"},
     criteria     |-> <<{"EPS", "MAX_ITER"}, 30, "1e-6">>]

\* cv2.fisheye.calibrate: raises on empty point lists and when the oracle
\* says so (CALIB_CHECK_COND); else writes the fit into the K and D buffers
fisheye_calibrate(args, oracle) ==
    IF args.objectPoints = <<>> \/ args.imagePoints = <<>> \/ oracle.raises
    THEN [raised |-> TRUE, rms |-> -1, K |-> args.K, D |-> args.D]
    ELSE [raised |-> FALSE, rms |-> oracle.fit,
          K |-> fitK(oracle.fit), D |-> fitD(oracle.fit)]

NoRet ==
    [rms |-> -1, K |-> zeros(<<>>), D |-> zeros(<<>>), rvecs |-> <<>>, tvecs |-> <<>>]

\* calibrate(img_paths, update_model, show_imgs) on the object self: what the
\* call did and how it ended
calibrate(self, img_paths, update_model, show_imgs, oracle) ==
    LET chessboard_model == chessboard(self.nx, self.ny)
        created == IF show_imgs THEN {"success img", "fail img"} ELSE {}
        st      == Loop(LoopStart, img_paths, self, show_imgs)
        N_OK    == Len(st.chess_2Dpts_list)
        rvecs   == PoseVecs(N_OK)
        tvecs   == PoseVecs(N_OK)
        buf     == SelectBuffers(self, update_model)
        args    == OptimizerArgs(chessboard_model, st.chess_2Dpts_list, st.gray,
                                 buf, rvecs, tvecs)
        opt     == fisheye_calibrate(args, oracle)
        base    == [chessboard_model |-> chessboard_model,
                    chess_2Dpts_list |-> st.chess_2Dpts_list,
                    printed |-> st.printed, shown |-> st.shown,
                    created |-> created,
                    loopDone |-> FALSE, windows |-> created,
                    optCalls |-> <<>>, outcome |-> "raised", exc |-> st.raised,
                    ret |-> NoRet, K |-> self.K, D |-> self.D]
    IN  IF st.raised # ""
        THEN \* an exception inside the loop: line 124 is never reached
             base
        ELSE IF st.gray.content = "unbound"
        THEN \* img_paths was empty: gray.shape raises before the optimizer call
             [base EXCEPT !.loopDone = TRUE, !.windows = {},
                          !.exc = "UnboundLocalError"]
        ELSE IF opt.raised
        THEN [base EXCEPT !.loopDone = TRUE, !.windows = {},
                          !.optCalls = <<args>>, !.exc = "cv2.error"]
        ELSE [base EXCEPT !.loopDone = TRUE, !.windows = {},
                          !.optCalls = <<args>>, !.outcome = "returned",
                          !.exc = "",
                          !.ret = [rms |-> opt.rms, K |-> opt.K, D |-> opt.D,
                                   rvecs |-> rvecs, tvecs |-> tvecs],
                          !.K = IF buf.stored THEN opt.K ELSE self.K,
                          !.D = IF buf.stored THEN opt.D ELSE self.D]

\* --------------------------------------------------------------- undistort
\* an optional argument: given is FALSE when the caller passed None
NoArg == [given |-> FALSE, val |-> zeros(<<>>)]

Arg(v) == [given |-> TRUE, val |-> v]

\* cv2.fisheye.initUndistortRectifyMap: size is (width, height); the maps
\* have height rows and width columns
initUndistortRectifyMap(K, D, R, P, size, m1type) ==
    [shape |-> <<size[2], size[1]>>,
     from  |-> [K |-> K, D |-> D, R |-> R, P |-> P, m1type |-> m1type]]

\* cv2.remap: the output has the size of the maps and the channels of src
remap(src, maps, interpolation, borderMode) ==
    [shape   |-> maps.shape \o SubSeq(src.shape, 3, Len(src.shape)),
     content |-> [src |-> src.content, srcshape |-> src.shape, maps |-> maps.from,
                  interpolation |-> interpolation, borderMode |-> borderMode]]

\* undistort storing the target matrix in the model
undistortStoresK(self, distorted_img, undistorted_size, R, K) ==
    LET Kt   == IF K.given THEN K.val ELSE self.K
        size == IF undistorted_size.given THEN undistorted_size.val
                ELSE SubSeq(distorted_img.shape, 1, 2)
        maps == initUndistortRectifyMap(self.K, self.D, R, Kt, size, "CV_16SC2")
    IN  [size |-> size,
         undistorted_img |-> remap(distorted_img, maps, "INTER_LINEAR", "BORDER_CONSTANT"),
         self |-> [self EXCEPT !.K = Kt]]

\* undistort(distorted_img, undistorted_size, R, K) on the object self
undistort(self, distorted_img, undistorted_size, R, K) ==
    LET Kt   == IF K.given THEN K.val ELSE self.K
        size == IF undistorted_size.given THEN undistorted_size.val
                ELSE SubSeq(distorted_img.shape, 1, 2)
        maps == initUndistortRectifyMap(self.K, self.D, R, Kt, size, "CV_16SC2")
    IN  [size |-> size,
         undistorted_img |-> remap(distorted_img, maps, "INTER_LINEAR", "BORDER_CONSTANT"),
         self |-> self]

\* ----------------------------------------------------------- projectPoints
\* cv2.fisheye.projectPoints on a (1, N, 3) batch: a (1, N, 2) array whose
\* k-th pair is the image of the k-th point under (rvec, tvec, K, D, alpha)
fisheye_projectPoints(objectPoints, rvec, tvec, K, D, alpha) ==
    LET n == Len(objectPoints.data) \div 3
    IN  [shape |-> SubSeq(objectPoints.shape, 1, Len(objectPoints.shape) - 1) \o <<2>>,
         data  |-> [q \in 1..(2 * n) |->
                       LET k == (q - 1) \div 2
                       IN  [coord |-> (q - 1) % 2,
                            point |-> SubSeq(objectPoints.data, 3 * k + 1, 3 * k + 3),
                            rvec |-> rvec.data, tvec |-> tvec.data,
                            K |-> K, D |-> D, alpha |-> alpha]]]

\* projectPoints wrapping every input, batched or not
projectPointsAlwaysWraps(self, object_points, skew) ==
    LET pts  == expand_dims0(object_points)
        rvec == reshape(zeros(<<3>>), <<1, 1, 3>>)
        tvec == reshape(zeros(<<3>>), <<1, 1, 3>>)
        image_points == fisheye_projectPoints(pts, rvec, tvec, self.K, self.D, skew)
    IN  [passed |-> pts, rvec |-> rvec, tvec |-> tvec,
         image_points |-> squeeze(image_points), self |-> self]

\* projectPoints(object_points, skew) on the object self
projectPoints(self, object_points, skew) ==
    LET pts  == IF ndim(object_points) = 2 THEN expand_dims0(object_points)
                ELSE object_points
        rvec == reshape(zeros(<<3>>), <<1, 1, 3>>)
        tvec == reshape(zeros(<<3>>), <<1, 1, 3>>)
        image_points == fisheye_projectPoints(pts, rvec, tvec, self.K, self.D, skew)
    IN  [passed |-> pts, rvec |-> rvec, tvec |-> tvec,
         image_points |-> squeeze(image_points), self |-> self]

\* ------------------------------------------------------------------- state
VARIABLES nx, ny, verbose, K, D, last

vars == <<nx, ny, verbose, K, D, last>>

\* the FishEye object as one record
Self == [nx |-> nx, ny |-> ny, verbose |-> verbose, K |-> K, D |-> D]

RECURSIVE SeqsUpTo(_, _)
SeqsUpTo(S, n) ==
    IF n = 0 THEN {<<>>}
    ELSE LET shorter == SeqsUpTo(S, n - 1)
         IN  shorter \cup {Append(s, x) : s \in shorter, x \in S}

\* images handed to undistort: colour and grayscale, square and not
DistortedImgs ==
    {[isNone |-> FALSE, shape |-> <<2, 3, 3>>, content |-> "wide"],
     [isNone |-> FALSE, shape |-> <<3, 2>>, content |-> "tall"],
     [isNone |-> FALSE, shape |-> <<2, 2, 3>>, content |-> "square"]}

Sizes == {NoArg, Arg(<<3, 2>>)}

Rotations == {eye3, [shape |-> <<3, 3>>, data |-> <<0, 1, 0, 1, 0, 0, 0, 0, 1>>]}

TargetKs == {NoArg, Arg(fitK(1))}

Coords == {<<0, 0, 1>>, <<1, 2, 3>>}

RECURSIVE Flatten(_)
Flatten(ps) == IF ps = <<>> THEN <<>> ELSE Head(ps) \o Flatten(Tail(ps))

\* the flat (N, 3) array and the batched (1, N, 3) array of a point list
FlatPoints(ps) == [shape |-> <<Len(ps), 3>>, data |-> Flatten(ps)]

BatchedPoints(ps) == [shape |-> <<1, Len(ps), 3>>, data |-> Flatten(ps)]

PointLists == SeqsUpTo(Coords, MaxPts) \ {<<>>}

\* no call is in progress or awaiting its caller
NoCall == [op |-> "none"]

Init ==
    /\ nx \in 1..MaxN
    /\ ny \in 1..MaxN
    /\ verbose \in BOOLEAN
    /\ K = FishEye(nx, ny, verbose).K
    /\ D = FishEye(nx, ny, verbose).D
    /\ last = NoCall

Calibrate ==
    /\ last = NoCall
    /\ \E img_paths \in SeqsUpTo(Paths, MaxImgs), update_model \in BOOLEAN,
       show_imgs \in BOOLEAN :
       \E oracle \in OraclesFor(Loop(LoopStart, img_paths, Self, show_imgs)) :
        LET res == calibrate(Self, img_paths, update_model, show_imgs, oracle)
        IN  /\ K' = res.K
            /\ D' = res.D
            /\ last' = [op |-> "calibrate", pre |-> Self, img_paths |-> img_paths,
                        update_model |-> update_model, show_imgs |-> show_imgs,
                        oracle |-> oracle, res |-> res]
            /\ UNCHANGED <<nx, ny, verbose>>

Undistort ==
    /\ last = NoCall
    /\ \E distorted_img \in DistortedImgs, undistorted_size \in Sizes,
       R \in Rotations, Kt \in TargetKs :
        LET res == undistort(Self, distorted_img, undistorted_size, R, Kt)
        IN  /\ nx' = res.self.nx
            /\ ny' = res.self.ny
            /\ verbose' = res.self.verbose
            /\ K' = res.self.K
            /\ D' = res.self.D
            /\ last' = [op |-> "undistort", pre |-> Self,
                        distorted_img |-> distorted_img,
                        undistorted_size |-> undistorted_size, R |-> R, K |-> Kt,
                        res |-> res]

ProjectPoints ==
    /\ last = NoCall
    /\ \E ps \in PointLists, batched \in BOOLEAN, skew \in {0, 1} :
        LET object_points == IF batched THEN BatchedPoints(ps) ELSE FlatPoints(ps)
            res == projectPoints(Self, object_points, skew)
        IN  /\ nx' = res.self.nx
            /\ ny' = res.self.ny
            /\ verbose' = res.self.verbose
            /\ K' = res.self.K
            /\ D' = res.self.D
            /\ last' = [op |-> "projectPoints", pre |-> Self, points |-> ps,
                        object_points |-> object_points, skew |-> skew,
                        res |-> res]

\* the caller takes the result of the finished call; the model stays as the
\* call left it
Return ==
    /\ last # NoCall
    /\ last' = NoCall
    /\ UNCHANGED <<nx, ny, verbose, K, D>>

Next == Calibrate \/ Undistort \/ ProjectPoints \/ Return

Spec == Init /\ [][Next]_vars

\* ------------------------------------------------------------------ claims
IsCalibrate == last.op = "calibrate"

IsUndistort == last.op = "undistort"

IsProjectPoints == last.op = "projectPoints"

\* detection outcome of a readable image file for the model's grid
Detects(fname) == findChessboardCorners(cvtColor(imread(fname)), nx, ny).ret

Readable(fname) == ~imread(fname).isNone

\* the images of img_paths whose detection succeeds, in input order
Successes(img_paths) ==
    SelectSeq(img_paths, LAMBDA f : Readable(f) /\ Detects(f))

\* C1: after the calibrate loop the accumulated corner-set list is exactly the
\* subsequence of images whose detection succeeded, in input order; a failed
\* detection adds nothing, does not raise and does not end the loop (with
\* every image readable the loop runs to its end).
C1_FailedDetectionSkipped ==
    IsCalibrate =>
        LET ok  == Successes(last.img_paths)
            acc == last.res.chess_2Dpts_list
        IN  /\ (\A i \in 1..Len(last.img_paths) : Readable(last.img_paths[i]))
                  => last.res.loopDone
            /\ last.res.loopDone =>
                  /\ Len(acc) = Len(ok)
                  /\ \A i \in 1..Len(ok) :
                        /\ acc[i].shape = <<1, nx * ny, 2>>
                        /\ \A q \in 1..Len(acc[i].data) :
                              acc[i].data[q] = <<imread(ok[i]).content, q, "subpix">>

C1_Witness ==
    /\ IsCalibrate
    /\ last.res.loopDone
    /\ Len(last.img_paths) = 2
    /\ ~Detects(last.img_paths[1])
    /\ Detects(last.img_paths[2])
    /\ Len(last.res.chess_2Dpts_list) = 1

\* C2: calibrate with update_model false leaves the stored K and D as they
\* were before the call; calibrate with update_model true that returns leaves
\* the stored K and D equal to the K and D it returns.
C2_UpdateModelMode ==
    IsCalibrate =>
        /\ ~last.update_model => (K = last.pre.K /\ D = last.pre.D)
        /\ (last.update_model /\ last.res.outcome = "returned")
              => (K = last.res.ret.K /\ D = last.res.ret.D)

C2_Witness ==
    /\ IsCalibrate
    /\ ~last.update_model
    /\ last.res.outcome = "returned"
    /\ last.pre.K # zeros(<<3, 3>>)
    /\ last.res.ret.K # last.pre.K
    /\ last.res.ret.D # last.pre.D

\* C3: a calibrate call in which no image succeeds detection ends in a failure
\* and never invokes the optimizer.
C3_NoOptimizerCallWithoutData ==
    (IsCalibrate /\ Successes(last.img_paths) = <<>>)
        => (last.res.outcome = "raised" /\ last.res.optCalls = <<>>)

\* C4: undistort leaves the stored K, D, nx and ny as they were, and the same
\* call made again on the model it left returns the same image.
C4_UndistortKeepsModel ==
    IsUndistort =>
        /\ K = last.pre.K
        /\ D = last.pre.D
        /\ nx = last.pre.nx
        /\ ny = last.pre.ny
        /\ undistort(Self, last.distorted_img, last.undistorted_size,
                     last.R, last.K).undistorted_img
              = last.res.undistorted_img

C4_Witness ==
    /\ IsUndistort
    /\ last.K.given
    /\ last.K.val # last.pre.K
    /\ last.pre.K # zeros(<<3, 3>>)
    /\ last.undistorted_size.given
    /\ last.R # eye3

\* C5: undistort called without an output size returns an image with the
\* height and the width of its input.
C5_DefaultSizeIsInputSize ==
    (IsUndistort /\ ~last.undistorted_size.given) =>
        /\ last.res.undistorted_img.shape[1] = last.distorted_img.shape[1]
        /\ last.res.undistorted_img.shape[2] = last.distorted_img.shape[2]

\* C6: a calibrate call that created its display windows has destroyed them
\* when it ends, however it ends.
C6_WindowsDestroyedAtEnd ==
    (IsCalibrate /\ last.show_imgs /\ last.res.created # {})
        => last.res.windows = {}

\* C7: projectPoints returns the same for the flat and for the batched form of
\* a point list: both reach the projection as one batch, at zero rotation and
\* translation, the i-th output pair is the image of the i-th point, and K
\* and D are as before the call.
C7_FlatAndBatchedAgree ==
    IsProjectPoints =>
        LET ps   == last.points
            flat == projectPoints(last.pre, FlatPoints(ps), last.skew)
            bat  == projectPoints(last.pre, BatchedPoints(ps), last.skew)
            out  == last.res.image_points
        IN  /\ flat.image_points = bat.image_points
            /\ out = flat.image_points
            /\ flat.passed = BatchedPoints(ps)
            /\ bat.passed = BatchedPoints(ps)
            /\ last.res.rvec = [shape |-> <<1, 1, 3>>, data |-> <<0, 0, 0>>]
            /\ last.res.tvec = [shape |-> <<1, 1, 3>>, data |-> <<0, 0, 0>>]
            /\ Len(out.data) = 2 * Len(ps)
            /\ \A i \in 1..Len(ps) : \A c \in 0..1 :
                  out.data[2 * (i - 1) + c + 1] =
                      [coord |-> c, point |-> ps[i],
                       rvec |-> <<0, 0, 0>>, tvec |-> <<0, 0, 0>>,
                       K |-> last.pre.K, D |-> last.pre.D, alpha |-> last.skew]
            /\ K = last.pre.K
            /\ D = last.pre.D

C7_Witness ==
    /\ IsProjectPoints
    /\ ndim(last.object_points) = 3
    /\ Len(last.points) = 2
    /\ last.points[1] # last.points[2]
    /\ last.res.image_points.shape = <<2, 2>>
    /\ last.pre.K # zeros(<<3, 3>>)

\* C8: the chessboard model built by calibrate has nx*ny points, the point at
\* index k being (k mod nx, k div nx, 0), so every grid position occurs once.
C8_ChessboardRowMajor ==
    IsCalibrate =>
        LET m == last.res.chessboard_model
        IN  /\ m.shape = <<1, nx * ny, 3>>
            /\ Len(m.data) = 3 * nx * ny
            /\ \A k \in 0..(nx * ny - 1) :
                  /\ m.data[3 * k + 1] = k % nx
                  /\ m.data[3 * k + 2] = k \div nx
                  /\ m.data[3 * k + 3] = 0
            /\ \A i \in 0..(nx - 1) : \A j \in 0..(ny - 1) :
                  Cardinality({k \in 0..(nx * ny - 1) :
                                  m.data[3 * k + 1] = i /\ m.data[3 * k + 2] = j}) = 1

C8_Witness ==
    /\ IsCalibrate
    /\ nx = 2
    /\ ny = 3
    /\ last.res.chessboard_model.data =
          <<0, 0, 0,  1, 0, 0,  0, 1, 0,  1, 1, 0,  0, 2, 0,  1, 2, 0>>

\* C9: when calibrate invokes the optimizer, the 3D sets, the 2D corner sets,
\* the rotation vectors and the translation vectors are as many as the images
\* whose detection succeeded, and the i-th 3D set is the chessboard model,
\* paired with the i-th accumulated corner set.
C9_OptimizerListsAligned ==
    IsCalibrate =>
        \A c \in 1..Len(last.res.optCalls) :
            LET a == last.res.optCalls[c]
                n == Len(Successes(last.img_paths))
            IN  /\ Len(a.objectPoints) = n
                /\ Len(a.imagePoints) = n
                /\ Len(a.rvecs) = n
                /\ Len(a.tvecs) = n
                /\ a.imagePoints = last.res.chess_2Dpts_list
                /\ \A i \in 1..n : a.objectPoints[i] = last.res.chessboard_model

C9_Witness ==
    /\ IsCalibrate
    /\ Len(last.res.optCalls) = 1
    /\ Len(last.img_paths) = 2
    /\ Len(last.res.optCalls[1].objectPoints) = 2
    /\ last.res.optCalls[1].imagePoints[1] # last.res.optCalls[1].imagePoints[2]
    /\ last.res.outcome = "returned"

\* what a calibrate call leaves behind apart from its printing and displaying
Results(res) ==
    <<res.chess_2Dpts_list, res.optCalls, res.outcome, res.exc, res.ret, res.K, res.D>>

\* C10: a calibrate run on the same model state and images with any other
\* verbose and show_imgs accumulates the same corner sets, passes the same
\* arguments to the optimizer, returns the same and stores the same K and D.
C10_FlagsDoNotAffectResults ==
    IsCalibrate =>
        \A v \in BOOLEAN, s \in BOOLEAN :
            Results(calibrate([last.pre EXCEPT !.verbose = v], last.img_paths,
                              last.update_model, s, last.oracle))
                = Results(last.res)

C10_Witness ==
    /\ IsCalibrate
    /\ verbose
    /\ last.show_imgs
    /\ last.res.outcome = "returned"
    /\ Len(last.res.printed) = 4
    /\ Len(last.res.shown) = 2
    /\ Len(last.res.chess_2Dpts_list) = 1

====
